---- MODULE Spec2Model ----
(***************************************************************************)
(* Model of src/validator/TraversalValidator.cpp (nebula-graph): the       *)
(* validators of the FROM / OVER / STEP clauses of a traversal sentence    *)
(* and the builders of the start-vid input and of the loop conditions.     *)
(*                                                                         *)
(* One behaviour is one use of a TraversalValidator: Init is the validator *)
(* after construction, holding freshly created outputs, and every action   *)
(* is one call of a member function (or one step of the executor's loop    *)
(* that evaluates a condition the validator built).                        *)
(*                                                                         *)
(* A pointer is a sequence of length 0 (nullptr) or 1 (the pointee).       *)
(***************************************************************************)
EXTENDS Integers, Sequences, FiniteSets, TLC

VARIABLES
    pc,                       \* what the validator has done so far
    vidType,                  \* space_.spaceDesc.vid_type: the schema vertex-ID type
    catalog,                  \* what qctx_->schemaMng() answers for space_
    startsClause,             \* argument of the validateStarts call
    starts,                   \* the Starts& the caller passes
    startsStatus,             \* Status returned by validateStarts
    userDefinedVarNameList,   \* userDefinedVarNameList_
    overClause,               \* argument of the validateOver call
    over,                     \* the Over& the caller passes
    overStatus,               \* Status returned by validateOver
    stepClause,               \* argument of the validateStep call
    step,                     \* the StepClause& the caller passes
    stepStatus,               \* Status returned by validateStep
    ectx,                     \* qctx_->ectx(): variable name -> Value
    anonVarIdx,               \* vctx_->anonVarGen(): number of names handed out
    startVidsVar,             \* the std::string& buildConstantInput writes
    loopSteps,                \* argument of the buildNStepLoopCondition call
    loopCond,                 \* pointer to the Expression the loop evaluates
    loopEvals,                \* number of evaluations of loopCond so far
    loopLast                  \* Value of the last evaluation of loopCond

vars == <<pc, vidType, catalog, startsClause, starts, startsStatus,
          userDefinedVarNameList, overClause, over, overStatus,
          stepClause, step, stepStatus, ectx, anonVarIdx,
          startVidsVar, loopSteps, loopCond, loopEvals, loopLast>>

startsVars == <<vidType, startsClause, starts, startsStatus, userDefinedVarNameList>>

overVars == <<catalog, overClause, over, overStatus>>

stepVars == <<stepClause, step, stepStatus>>

buildVars == <<ectx, anonVarIdx, startVidsVar>>

loopVars == <<loopSteps, loopCond, loopEvals, loopLast>>

(***************************************************************************)
(* Bounds of the model.                                                    *)
(***************************************************************************)
\* largest hop bound written in a STEP clause
MaxStep == 10

\* longest list of edge names (in an OVER clause, or listed by the catalog)
MaxEdges == 2

\* longest list of vid expressions in a FROM clause
MaxVids == 3

\* most anonymous variables handed out before the calls modelled here
MaxAnonVars == 2

\* largest low part of a hop count given to buildNStepLoopCondition
MaxLoopSteps == 3

\* most evaluations of a loop condition
MaxEvals == 6

\* most rows one expansion step produces
MaxRows == 2

(***************************************************************************)
(* Pointers and Status.                                                    *)
(***************************************************************************)
nullptr == <<>>

Ptr(x) == <<x>>

\* Status::OK()
StatusOK == [ok |-> TRUE, msg |-> "", names |-> <<>>]

\* Status::SemanticError(fmt, args...): msg is the format, names the arguments.
SemanticError(msg, names) == [ok |-> FALSE, msg |-> msg, names |-> names]

(***************************************************************************)
(* validateStep                                                            *)
(***************************************************************************)
\* A StepClause: a fixed hop count (mSteps = nSteps) or an M-to-N range.
StepClauses ==
    { [isMToN |-> FALSE, mSteps |-> k, nSteps |-> k] : k \in 0..MaxStep }
    \cup
    { [isMToN |-> TRUE, mSteps |-> m, nSteps |-> n] : m \in 0..MaxStep, n \in 0..MaxStep }

\* The StepClause the caller holds before validateStep fills it in.
DefaultStep == [isMToN |-> FALSE, mSteps |-> 1, nSteps |-> 1]

\* StepClause::toString()
StepToString(s) ==
    IF s.isMToN THEN <<"MToN", s.mSteps, s.nSteps>> ELSE <<"Steps", s.mSteps>>

\* Lines 114-116 without the assignment: a zero lower bound is kept.
NormalizeMSteps_keepZero(s) == s

\* Lines 114-116: a zero lower bound becomes 1.
NormalizeMSteps(s) == IF s.mSteps = 0 THEN [s EXCEPT !.mSteps = 1] ELSE s

\* Status validateStep(const StepClause* clause, StepClause& step)
validateStep(clause, stepIn) ==
    IF clause = nullptr
    THEN [status |-> SemanticError("Step clause nullptr.", <<>>), step |-> stepIn]
    ELSE LET copied == clause[1]
             normed == IF clause[1].isMToN THEN NormalizeMSteps(copied) ELSE copied
         IN  IF clause[1].isMToN /\ normed.nSteps < normed.mSteps
             THEN [status |-> SemanticError(
                       "`%s', upper bound steps should be greater than lower bound.",
                       <<StepToString(normed)>>),
                   step |-> normed]
             ELSE [status |-> StatusOK, step |-> normed]

\* One call of validateStep.
ValidateStep ==
    /\ pc = "idle"
    /\ \E clause \in {nullptr} \cup { Ptr(c) : c \in StepClauses } :
          LET r == validateStep(clause, step)
          IN  /\ stepClause' = clause
              /\ step' = r.step
              /\ stepStatus' = r.status
    /\ pc' = "stepDone"
    /\ UNCHANGED <<startsVars, overVars, buildVars, loopVars>>

(***************************************************************************)
(* validateOver                                                            *)
(***************************************************************************)
\* Sequences over S of length at most n.
SeqUpTo(S, n) == UNION { [1..k -> S] : k \in 0..n }

\* space_.name
SpaceName == "nba"

EdgeNames == {"follow", "like"}

\* storage::cpp2::EdgeDirection
Directions == {"OUT_EDGE", "IN_EDGE", "BOTH"}

\* The EdgeType the schema manager holds for an edge name it knows.
EdgeTypeOf(name) == IF name = "follow" THEN 5 ELSE 7

\* What the schema manager can answer for space_.id: getAllEdge fails
\* (listOk = FALSE) or lists edges; toEdgeType knows the names in known.
Catalogs ==
    { [listOk |-> FALSE, edges |-> <<>>, known |-> k] : k \in SUBSET EdgeNames }
    \cup
    { [listOk |-> TRUE, edges |-> e, known |-> k] :
          e \in SeqUpTo(EdgeNames, MaxEdges), k \in SUBSET EdgeNames }

\* An OverClause: OVER * (isOverAll) or OVER e1, e2, ...
OverClauses ==
    { [isOverAll |-> TRUE, edges |-> <<>>, direction |-> d] : d \in Directions }
    \cup
    { [isOverAll |-> FALSE, edges |-> e, direction |-> d] :
          e \in SeqUpTo(EdgeNames, MaxEdges), d \in Directions }

\* The Over the caller holds before validateOver fills it in; its direction
\* member has no initializer.
EmptyOver(d) == [isOverAll |-> FALSE, edgeTypes |-> <<>>, direction |-> d, allEdges |-> <<>>]

\* allEdgeStatus.status() of a failed schemaMng->getAllEdge(space_.id)
AllEdgeError == [ok |-> FALSE, msg |-> "getAllEdge: not ok", names |-> <<>>]

\* schemaMng->toEdgeType(space_.id, name).ok()
toEdgeTypeOk(cat, name) == name \in cat.known

\* The loops of lines 83-90 and 95-103 appending at the front.
RECURSIVE ResolveEdges_prepend(_, _, _, _)
ResolveEdges_prepend(cat, names, i, acc) ==
    IF i > Len(names) THEN [bad |-> 0, edgeTypes |-> acc]
    ELSE IF ~toEdgeTypeOk(cat, names[i])
         THEN [bad |-> i, edgeTypes |-> acc]
         ELSE ResolveEdges_prepend(cat, names, i + 1, <<EdgeTypeOf(names[i])>> \o acc)

\* The loops of lines 83-90 and 95-103: from names[i] on, append the type of
\* each name to acc and stop at the first name that does not resolve
\* (bad = its index, 0 when every name resolved).
RECURSIVE ResolveEdges(_, _, _, _)
ResolveEdges(cat, names, i, acc) ==
    IF i > Len(names) THEN [bad |-> 0, edgeTypes |-> acc]
    ELSE IF ~toEdgeTypeOk(cat, names[i])
         THEN [bad |-> i, edgeTypes |-> acc]
         ELSE ResolveEdges(cat, names, i + 1, Append(acc, EdgeTypeOf(names[i])))

\* Status validateOver(const OverClause* clause, Over& over)
validateOver(cat, clause, overIn) ==
    IF clause = nullptr
    THEN [status |-> SemanticError("Over clause nullptr.", <<>>), over |-> overIn]
    ELSE
    LET o1 == [overIn EXCEPT !.direction = clause[1].direction]
    IN  IF clause[1].isOverAll
        THEN IF ~cat.listOk
             THEN [status |-> AllEdgeError, over |-> o1]
             ELSE IF cat.edges = <<>>
             THEN [status |-> SemanticError("No edge type found in space `%s'",
                                            <<SpaceName>>),
                   over |-> o1]
             ELSE LET r == ResolveEdges(cat, cat.edges, 1, o1.edgeTypes)
                      o2 == [o1 EXCEPT !.edgeTypes = r.edgeTypes]
                  IN  IF r.bad # 0
                      THEN [status |-> SemanticError("`%s' not found in space [`%s'].",
                                                     <<cat.edges[r.bad], SpaceName>>),
                            over |-> o2]
                      ELSE [status |-> StatusOK,
                            over |-> [o2 EXCEPT !.allEdges = cat.edges,
                                                !.isOverAll = TRUE]]
        ELSE LET r == ResolveEdges(cat, clause[1].edges, 1, o1.edgeTypes)
                 o2 == [o1 EXCEPT !.edgeTypes = r.edgeTypes]
             IN  IF r.bad # 0
                 THEN [status |-> SemanticError("%s not found in space [%s].",
                                                <<clause[1].edges[r.bad], SpaceName>>),
                       over |-> o2]
                 ELSE [status |-> StatusOK, over |-> o2]

\* One call of validateOver, against whatever the schema manager answers.
ValidateOver ==
    /\ pc = "idle"
    /\ \E cat \in Catalogs, clause \in {nullptr} \cup { Ptr(c) : c \in OverClauses } :
          LET r == validateOver(cat, clause, over)
          IN  /\ catalog' = cat
              /\ overClause' = clause
              /\ over' = r.over
              /\ overStatus' = r.status
    /\ pc' = "overDone"
    /\ UNCHANGED <<startsVars, stepVars, buildVars, loopVars>>

(***************************************************************************)
(* Values and expressions                                                  *)
(***************************************************************************)
\* nebula::Value: a type tag and a payload.
IntValue(i) == [type |-> "INT", v |-> i]

StrValue(i) == [type |-> "STRING", v |-> i]

FloatValue(i) == [type |-> "FLOAT", v |-> i]

BoolValue(b) == [type |-> "BOOL", v |-> b]

\* Value(): the empty value
EmptyValue == [type |-> "__EMPTY__", v |-> 0]

NullBadType == [type |-> "NULL", v |-> 0]

\* Value(DataSet)
DataSetValue(ds) == [type |-> "DATASET", v |-> ds]

\* kVid, the reserved vertex-id column name
kVid == "_vid"

\* meta::cpp2::PropertyType of a vertex id
VidTypes == {"INT64", "FIXED_STRING"}

\* SchemaUtil::propTypeToValueType
propTypeToValueType(t) == IF t = "INT64" THEN "INT" ELSE "STRING"

\* apache::thrift::util::enumNameSafe(vidType)
enumNameSafe(t) == t

\* SchemaUtil::isValidVid(value, vidType)
isValidVid(value, t) ==
    /\ value.type \in {"INT", "STRING"}
    /\ value.type = propTypeToValueType(t)

(***************************************************************************)
(* validateStarts                                                          *)
(***************************************************************************)
\* Symbols of user variables and names of properties.
Syms == {"a", "b"}

Props == {"id", "dst"}

\* The expressions a reference FROM clause can hold: $-.prop, $sym.prop,
\* and expressions of other kinds.
RefExprs ==
    { [kind |-> "kInputProperty", sym |-> "", prop |-> p] : p \in Props }
    \cup
    { [kind |-> "kVarProperty", sym |-> s, prop |-> p] : s \in Syms, p \in Props }
    \cup
    { [kind |-> k, sym |-> "", prop |-> "id"] : k \in {"kSrcProperty", "kConstant"} }

\* What deduceExprType(src) can answer: a failure or a Value::Type.
DeducedTypes ==
    { [ok |-> FALSE, type |-> "", status |-> SemanticError("deduceExprType failed", <<>>)] }
    \cup
    { [ok |-> TRUE, type |-> t, status |-> StatusOK] : t \in {"INT", "STRING", "FLOAT"} }

\* The elements of a literal vid list: whether evaluableExpr(expr) holds and
\* what expr->eval gives.
VidExprs ==
    { [evaluable |-> TRUE, value |-> v] :
          v \in {IntValue(1), IntValue(2), StrValue(1), FloatValue(1)} }
    \cup
    { [evaluable |-> FALSE, value |-> EmptyValue] }

\* A VerticesClause, with the answer of deduceExprType for its ref.
VerticesClauses ==
    { [isRef |-> TRUE, ref |-> Ptr(e), deduced |-> d, vidList |-> <<>>] :
          e \in RefExprs, d \in DeducedTypes }
    \cup
    { [isRef |-> FALSE, ref |-> nullptr, deduced |-> d, vidList |-> l] :
          d \in { x \in DeducedTypes : ~x.ok }, l \in SeqUpTo(VidExprs, MaxVids) }

\* The Starts the caller holds before validateStarts fills it in.
EmptyStarts ==
    [fromType |-> "kInstantExpr", src |-> nullptr, originalSrc |-> nullptr,
     userDefinedVarName |-> "", firstBeginningSrcVidColName |-> "", vids |-> <<>>]

\* Lines 50-63 skipping an element that is not a valid vid.
RECURSIVE FoldVids_skipInvalid(_, _, _, _)
FoldVids_skipInvalid(t, vidList, i, acc) ==
    IF i > Len(vidList) THEN [status |-> StatusOK, vids |-> acc]
    ELSE IF ~vidList[i].evaluable
    THEN [status |-> SemanticError("`%s' is not an evaluable expression.", <<vidList[i]>>),
          vids |-> acc]
    ELSE IF ~isValidVid(vidList[i].value, t)
    THEN FoldVids_skipInvalid(t, vidList, i + 1, acc)
    ELSE FoldVids_skipInvalid(t, vidList, i + 1, Append(acc, vidList[i].value))

\* Lines 50-63: from vidList[i] on, evaluate each element and append its
\* value to acc; stop at the first element that is not evaluable or whose
\* value is not a valid vid.
RECURSIVE FoldVids(_, _, _, _)
FoldVids(t, vidList, i, acc) ==
    IF i > Len(vidList) THEN [status |-> StatusOK, vids |-> acc]
    ELSE IF ~vidList[i].evaluable
    THEN [status |-> SemanticError("`%s' is not an evaluable expression.", <<vidList[i]>>),
          vids |-> acc]
    ELSE IF ~isValidVid(vidList[i].value, t)
    THEN [status |-> SemanticError("Vid should be a %s", <<enumNameSafe(t)>>),
          vids |-> acc]
    ELSE FoldVids(t, vidList, i + 1, Append(acc, vidList[i].value))

\* Line 27 with the two origins exchanged.
FromTypeOf_swapped(kind) == IF kind = "kInputProperty" THEN "kVariable" ELSE "kPipe"

\* Line 27
FromTypeOf(kind) == IF kind = "kInputProperty" THEN "kPipe" ELSE "kVariable"

\* Lines 42-45 registering the symbol of every reference, pipe input included.
RegisterVar_always(fromType, sym, list) == list \cup {sym}

\* Lines 42-45: userDefinedVarNameList_ after a reference has been accepted.
RegisterVar(fromType, sym, list) == IF fromType = "kVariable" THEN list \cup {sym} ELSE list

\* Status validateStarts(const VerticesClause* clause, Starts& starts)
validateStarts(t, clause, startsIn, list) ==
    IF clause = nullptr
    THEN [status |-> SemanticError("From clause nullptr.", <<>>),
          starts |-> startsIn, list |-> list]
    ELSE IF clause[1].isRef
    THEN LET src == clause[1].ref[1]
             type == clause[1].deduced
         IN  IF src.kind # "kInputProperty" /\ src.kind # "kVarProperty"
             THEN [status |-> SemanticError(
                       "`%s', Only input and variable expression is acceptable when starts are evaluated at runtime.",
                       <<src>>),
                   starts |-> startsIn, list |-> list]
             ELSE LET s1 == [startsIn EXCEPT !.fromType = FromTypeOf(src.kind)]
                  IN  IF ~type.ok
                      THEN [status |-> type.status, starts |-> s1, list |-> list]
                      ELSE IF type.type # propTypeToValueType(t)
                      THEN [status |-> SemanticError(
                                "`%s', the srcs should be type of %s, but was`%s'",
                                <<src, enumNameSafe(t), type.type>>),
                            starts |-> s1, list |-> list]
                      ELSE LET s2 == [s1 EXCEPT !.originalSrc = Ptr(src)]
                               s3 == IF s2.fromType = "kVariable"
                                     THEN [s2 EXCEPT !.userDefinedVarName = src.sym]
                                     ELSE s2
                           IN  [status |-> StatusOK,
                                starts |-> [s3 EXCEPT !.firstBeginningSrcVidColName = src.prop],
                                list |-> RegisterVar(s2.fromType, src.sym, list)]
    ELSE LET r == FoldVids(t, clause[1].vidList, 1, startsIn.vids)
         IN  [status |-> r.status,
              starts |-> [startsIn EXCEPT !.vids = r.vids],
              list |-> list]

\* One call of validateStarts, in a space of some vid type.
ValidateStarts ==
    /\ pc = "idle"
    /\ \E t \in VidTypes, clause \in {nullptr} \cup { Ptr(c) : c \in VerticesClauses } :
          LET r == validateStarts(t, clause, starts, userDefinedVarNameList)
          IN  /\ vidType' = t
              /\ startsClause' = clause
              /\ starts' = r.starts
              /\ startsStatus' = r.status
              /\ userDefinedVarNameList' = r.list
    /\ pc' = "startsDone"
    /\ UNCHANGED <<overVars, stepVars, buildVars, loopVars>>

(***************************************************************************)
(* The execution context and the evaluation of expressions                 *)
(***************************************************************************)
\* ectx()->getValue(name): a variable never set reads as the empty value.
GetValue(ctx, name) == IF name \in DOMAIN ctx THEN ctx[name] ELSE EmptyValue

\* ectx()->setValue(name, value) / setResult(name, result)
SetValue(ctx, name, value) ==
    [n \in (DOMAIN ctx) \cup {name} |-> IF n = name THEN value ELSE ctx[n]]

\* AnonVarGenerator::getVar() hands out "__VAR_<i>" for i = 0, 1, ...
AnonVarName(i) == "__VAR_" \o ToString(i)

\* loopSteps_, the anonymous variable the validator takes when constructed
LoopStepsVar == AnonVarName(0)

ConstantExpression(v) == [kind |-> "kConstant", value |-> v]

VariableExpression(name) == [kind |-> "kVar", var |-> name]

UnaryExpression(kind, operand) == [kind |-> kind, operand |-> operand]

RelationalExpression(kind, left, right) == [kind |-> kind, left |-> left, right |-> right]

LogicalExpression(kind, left, right) == [kind |-> kind, left |-> left, right |-> right]

FunctionCallExpression(name, args) == [kind |-> "kFunctionCall", name |-> name, args |-> args]

VariablePropertyExpression(sym, prop) == [kind |-> "kVarProperty", sym |-> sym, prop |-> prop]

IsTrue(v) == v.type = "BOOL" /\ v.v = TRUE

IsFalse(v) == v.type = "BOOL" /\ v.v = FALSE

\* operator== of Value
ValueEq(a, b) == a.type = b.type /\ a.v = b.v

\* size(v)
SizeOf(v) ==
    IF v.type = "DATASET" THEN IntValue(Len(v.v.rows))
    ELSE IF v.type = "__EMPTY__" THEN EmptyValue
    ELSE NullBadType

\* The value of a binary expression given the values of its operands.
BinaryValue(kind, a, b) ==
    CASE kind = "kRelLE" ->
             IF a.type = "INT" /\ b.type = "INT" THEN BoolValue(a.v <= b.v) ELSE NullBadType
      [] kind = "kRelEQ" -> BoolValue(ValueEq(a, b))
      [] kind = "kRelNE" -> BoolValue(~ValueEq(a, b))
      [] kind = "kLogicalOr" ->
             IF a.type = "BOOL" /\ b.type = "BOOL" THEN BoolValue(a.v \/ b.v) ELSE NullBadType
      [] kind = "kLogicalAnd" ->
             IF a.type = "BOOL" /\ b.type = "BOOL" THEN BoolValue(a.v /\ b.v) ELSE NullBadType

\* expr->eval(ctx): the value of the expression and the context it leaves.
RECURSIVE Eval(_, _)
Eval(e, ctx) ==
    CASE e.kind = "kConstant" -> [val |-> e.value, ctx |-> ctx]
      [] e.kind = "kVar" -> [val |-> GetValue(ctx, e.var), ctx |-> ctx]
      [] e.kind = "kUnaryIncr" ->
             LET r  == Eval(e.operand, ctx)
                 nv == IF r.val.type = "INT" THEN IntValue(r.val.v + 1) ELSE NullBadType
             IN  [val |-> nv, ctx |-> SetValue(r.ctx, e.operand.var, nv)]
      [] e.kind = "kFunctionCall" ->
             LET a == Eval(e.args[1], ctx)
             IN  [val |-> SizeOf(a.val), ctx |-> a.ctx]
      [] OTHER ->
             LET l == Eval(e.left, ctx)
                 r == Eval(e.right, l.ctx)
             IN  [val |-> BinaryValue(e.kind, l.val, r.val), ctx |-> r.ctx]

(***************************************************************************)
(* buildConstantInput                                                      *)
(***************************************************************************)
\* Lines 143-149 keeping one row per distinct vid.
RECURSIVE RowsOf_dedup(_)
RowsOf_dedup(vids) ==
    IF vids = <<>> THEN <<>>
    ELSE LET n    == Len(vids)
             init == RowsOf_dedup(SubSeq(vids, 1, n - 1))
         IN  IF \E j \in 1..(n - 1) : vids[j] = vids[n]
             THEN init
             ELSE Append(init, [values |-> <<vids[n]>>])

\* Lines 145-149: one Row per vid, in order.
RowsOf(vids) == [i \in 1..Len(vids) |-> [values |-> <<vids[i]>>]]

\* void buildConstantInput(Starts& starts, std::string& startVidsVar)
buildConstantInput(startsIn, idx, ctx) ==
    LET var == AnonVarName(idx)
        ds  == [colNames |-> <<kVid>>, rows |-> RowsOf(startsIn.vids)]
    IN  [startVidsVar |-> var,
         anonVarIdx |-> idx + 1,
         ectx |-> SetValue(ctx, var, DataSetValue(ds)),
         starts |-> [startsIn EXCEPT !.src = Ptr(VariablePropertyExpression(var, kVid))]]

\* The caller materializes the literal start vids after validateStarts.
BuildConstantInput ==
    /\ pc = "startsDone"
    /\ startsStatus.ok
    /\ starts.fromType = "kInstantExpr"
    /\ LET r == buildConstantInput(starts, anonVarIdx, ectx)
       IN  /\ startVidsVar' = r.startVidsVar
           /\ anonVarIdx' = r.anonVarIdx
           /\ ectx' = r.ectx
           /\ starts' = r.starts
    /\ pc' = "built"
    /\ UNCHANGED <<vidType, startsClause, startsStatus, userDefinedVarNameList,
                   overVars, stepVars, loopVars>>

(***************************************************************************)
(* buildNStepLoopCondition, buildExpandEndCondition and the loop           *)
(***************************************************************************)
\* A uint32_t as its bit 31 (hi) and its bits 0..30 (lo): the value is
\* hi * 2^31 + lo.
Uint32s == { [hi |-> h, lo |-> l] : h \in 0..1, l \in 0..MaxLoopSteps }

\* static_cast<int32_t>(u): two's complement, lo - hi * 2^31
StaticCastInt32(u) == IF u.hi = 1 THEN (u.lo - 2147483647) - 1 ELSE u.lo

\* Expression* buildNStepLoopCondition(uint32_t steps): ++loopSteps_ <= steps
buildNStepLoopCondition(steps, ctx) ==
    [ectx |-> SetValue(ctx, LoopStepsVar, IntValue(0)),
     expr |-> RelationalExpression("kRelLE",
                  UnaryExpression("kUnaryIncr", VariableExpression(LoopStepsVar)),
                  ConstantExpression(IntValue(StaticCastInt32(steps))))]

\* Line 195 joining the two tests with AND.
buildExpandEndCondition_and(lastStepResult) ==
    LET eqEmpty == RelationalExpression("kRelEQ", VariableExpression(lastStepResult),
                                        ConstantExpression(EmptyValue))
        neZero  == RelationalExpression("kRelNE",
                       FunctionCallExpression("size", <<VariableExpression(lastStepResult)>>),
                       ConstantExpression(IntValue(0)))
    IN  LogicalExpression("kLogicalAnd", eqEmpty, neZero)

\* Expression* buildExpandEndCondition(lastStepResult):
\* $var == empty || size($var) != 0
buildExpandEndCondition(lastStepResult) ==
    LET eqEmpty == RelationalExpression("kRelEQ", VariableExpression(lastStepResult),
                                        ConstantExpression(EmptyValue))
        neZero  == RelationalExpression("kRelNE",
                       FunctionCallExpression("size", <<VariableExpression(lastStepResult)>>),
                       ConstantExpression(IntValue(0)))
    IN  LogicalExpression("kLogicalOr", eqEmpty, neZero)

\* The variable an expand-end condition reads.
LastStepResultOf(cond) == cond.left.left.var

IsNStepCond(cond) == cond.kind = "kRelLE"

IsExpandCond(cond) == cond.kind \in {"kLogicalOr", "kLogicalAnd"}

\* The planner asks for the condition of a loop of a given number of steps.
BuildNStepLoopCondition ==
    /\ pc = "idle"
    /\ \E steps \in Uint32s :
          LET r == buildNStepLoopCondition(steps, ectx)
          IN  /\ loopSteps' = steps
              /\ ectx' = r.ectx
              /\ loopCond' = Ptr(r.expr)
    /\ pc' = "loopCond"
    /\ UNCHANGED <<startsVars, overVars, stepVars, anonVarIdx, startVidsVar,
                   loopEvals, loopLast>>

\* The planner asks for the condition of an unbounded expansion whose steps
\* write their result to some variable.
BuildExpandEndCondition ==
    /\ pc = "idle"
    /\ \E i \in 1..MaxAnonVars :
          loopCond' = Ptr(buildExpandEndCondition(AnonVarName(i)))
    /\ pc' = "loopCond"
    /\ UNCHANGED <<startsVars, overVars, stepVars, buildVars, loopSteps,
                   loopEvals, loopLast>>

\* The executor evaluates the loop condition: once per pass of the loop, and
\* again after the loop has been left.
EvalLoopCond ==
    /\ pc \in {"loopCond", "loopExited"}
    /\ loopEvals < MaxEvals
    /\ LET r == Eval(loopCond[1], ectx)
       IN  /\ ectx' = r.ctx
           /\ loopLast' = r.val
           /\ pc' = IF IsTrue(r.val) THEN "loopBody" ELSE "loopExited"
    /\ loopEvals' = loopEvals + 1
    /\ UNCHANGED <<startsVars, overVars, stepVars, anonVarIdx, startVidsVar,
                   loopSteps, loopCond>>

\* The body of a loop of n steps: it leaves the loop counter alone.
NStepLoopBody ==
    /\ pc = "loopBody"
    /\ IsNStepCond(loopCond[1])
    /\ pc' = "loopCond"
    /\ UNCHANGED <<startsVars, overVars, stepVars, buildVars, loopVars>>

\* The body of an unbounded expansion: the step writes its result, a data
\* set of some number of rows, to the variable the condition reads.
ExpandLoopBody ==
    /\ pc = "loopBody"
    /\ IsExpandCond(loopCond[1])
    /\ \E n \in 0..MaxRows :
          ectx' = SetValue(ectx, LastStepResultOf(loopCond[1]),
                           DataSetValue([colNames |-> <<kVid>>,
                                         rows |-> [j \in 1..n |-> [values |-> <<IntValue(j)>>]]]))
    /\ pc' = "loopCond"
    /\ UNCHANGED <<startsVars, overVars, stepVars, anonVarIdx, startVidsVar, loopVars>>

(***************************************************************************)
(* The specification                                                       *)
(***************************************************************************)
Init ==
    /\ pc = "idle"
    /\ vidType = "INT64"
    /\ catalog = [listOk |-> FALSE, edges |-> <<>>, known |-> {}]
    /\ startsClause = nullptr
    /\ starts = EmptyStarts
    /\ startsStatus = StatusOK
    /\ userDefinedVarNameList \in SUBSET Syms
    /\ overClause = nullptr
    /\ over \in { EmptyOver(d) : d \in Directions }
    /\ overStatus = StatusOK
    /\ stepClause = nullptr
    /\ step = DefaultStep
    /\ stepStatus = StatusOK
    /\ ectx = <<>>
    /\ anonVarIdx \in 1..MaxAnonVars
    /\ startVidsVar = ""
    /\ loopSteps = [hi |-> 0, lo |-> 0]
    /\ loopCond = nullptr
    /\ loopEvals = 0
    /\ loopLast = EmptyValue

Next ==
    \/ ValidateStarts
    \/ ValidateOver
    \/ ValidateStep
    \/ BuildConstantInput
    \/ BuildNStepLoopCondition
    \/ BuildExpandEndCondition
    \/ EvalLoopCond
    \/ NStepLoopBody
    \/ ExpandLoopBody

Spec == Init /\ [][Next]_vars

(***************************************************************************)
(* Properties                                                              *)
(***************************************************************************)
\* k <= n for a count k of evaluations and a uint32_t n
LeqUint32(k, n) == n.hi = 1 \/ k <= n.lo

NStepLoopBuilt == Len(loopCond) = 1 /\ IsNStepCond(loopCond[1])

ExpandLoopBuilt == Len(loopCond) = 1 /\ IsExpandCond(loopCond[1])

\* C1: buildNStepLoopCondition(n) sets the loop counter to 0, and the k-th
\* evaluation of the condition it returns (k >= 1) is true if and only if
\* k <= n, for every uint32_t n; an evaluation that is not true is false.
C1_NStepLoopRunsNTimes ==
    NStepLoopBuilt =>
        /\ loopEvals = 0 => ValueEq(GetValue(ectx, LoopStepsVar), IntValue(0))
        /\ loopEvals >= 1 =>
               /\ IsTrue(loopLast) <=> LeqUint32(loopEvals, loopSteps)
               /\ IsTrue(loopLast) \/ IsFalse(loopLast)

\* The variable the expand-end condition reads holds a data set of no rows.
LastStepResultIsZeroSize ==
    LET v == GetValue(ectx, LastStepResultOf(loopCond[1]))
    IN  v.type = "DATASET" /\ Len(v.v.rows) = 0

\* C2: the condition of buildExpandEndCondition(v) is true when v holds the
\* empty value or a collection of non-zero size and false only when v holds
\* a collection of size zero; so the loop runs its first pass and is left at
\* the first pass whose previous step result is a collection of size zero.
C2_ExpandEndCondition ==
    (ExpandLoopBuilt /\ loopEvals >= 1 /\ pc \in {"loopBody", "loopExited"}) =>
        LET v == GetValue(ectx, LastStepResultOf(loopCond[1]))
        IN  /\ (v.type = "__EMPTY__" \/ (v.type = "DATASET" /\ Len(v.v.rows) > 0))
                   => IsTrue(loopLast)
            /\ IsFalse(loopLast) <=> LastStepResultIsZeroSize
            /\ loopEvals = 1 => (IsTrue(loopLast) /\ pc = "loopBody")
            /\ pc = "loopExited" <=> LastStepResultIsZeroSize

\* C2 witness: an expansion that ran at least one pass and was then left.
C2_Witness ==
    ExpandLoopBuilt /\ pc = "loopExited" /\ loopEvals >= 2 /\ IsFalse(loopLast)

\* C3: validateStep on a range clause (lower, upper) succeeds iff
\* upper >= max(lower, 1), and then lower' = 1 if lower = 0 and lower
\* otherwise, upper is unchanged and 1 <= lower' <= upper; on a fixed-hop
\* clause of value k it always succeeds with lower = upper = k.
C3_StepRange ==
    (pc = "stepDone" /\ stepClause # nullptr) =>
        LET c == stepClause[1]
        IN  IF c.isMToN
            THEN /\ stepStatus.ok <=>
                        c.nSteps >= (IF c.mSteps > 1 THEN c.mSteps ELSE 1)
                 /\ stepStatus.ok =>
                        /\ step.isMToN
                        /\ step.mSteps = (IF c.mSteps = 0 THEN 1 ELSE c.mSteps)
                        /\ step.nSteps = c.nSteps
                        /\ 1 <= step.mSteps /\ step.mSteps <= step.nSteps
            ELSE /\ stepStatus.ok
                 /\ ~step.isMToN
                 /\ step.mSteps = c.mSteps /\ step.nSteps = c.mSteps

\* C3 witness: a range clause with lower bound 0 was accepted.
C3_Witness ==
    /\ pc = "stepDone" /\ stepClause # nullptr /\ stepStatus.ok
    /\ stepClause[1].isMToN /\ stepClause[1].mSteps = 0 /\ step.nSteps >= 2

\* A literal-list FROM clause has been validated.
LiteralListDone == pc = "startsDone" /\ startsClause # nullptr /\ ~startsClause[1].isRef

\* The value of element i of the list is not of the space's vid type.
WrongVidType(l, i) == l[i].evaluable /\ l[i].value.type # propTypeToValueType(vidType)

\* On a literal list whose elements are all evaluable and of the vid type,
\* validateStarts succeeds and vids is the list of their values, in order.
LiteralListAccepted ==
    LiteralListDone =>
        LET l == startsClause[1].vidList
        IN  (\A i \in 1..Len(l) : l[i].evaluable /\ ~WrongVidType(l, i)) =>
                /\ startsStatus.ok
                /\ Len(starts.vids) = Len(l)
                /\ \A i \in 1..Len(l) : starts.vids[i] = l[i].value

\* The Status names the expected vid type.
NamesExpectedVidType ==
    /\ startsStatus.msg = "Vid should be a %s"
    /\ startsStatus.names = <<enumNameSafe(vidType)>>

\* C4 as stated: a literal list of evaluable elements of the vid type is
\* accepted with vids the folded values in clause order; a literal list with
\* at least one value of the wrong type fails with a SemanticError naming
\* the expected vid type.
C4_LiteralListAsStated ==
    /\ LiteralListAccepted
    /\ LiteralListDone =>
           LET l == startsClause[1].vidList
           IN  (\E i \in 1..Len(l) : WrongVidType(l, i)) =>
                   (~startsStatus.ok /\ NamesExpectedVidType)

\* C4 amended: as C4, but a list with a value of the wrong type fails with
\* the error naming the expected vid type only when no element before the
\* first such value is non-evaluable; otherwise it fails with the error of
\* the first non-evaluable element.
C4_LiteralList ==
    /\ LiteralListAccepted
    /\ LiteralListDone =>
           LET l == startsClause[1].vidList
           IN  \A i \in 1..Len(l) :
                   (WrongVidType(l, i) /\ \A j \in 1..(i - 1) : ~WrongVidType(l, j)) =>
                       /\ ~startsStatus.ok
                       /\ IF \A j \in 1..(i - 1) : l[j].evaluable
                          THEN NamesExpectedVidType
                          ELSE /\ startsStatus.msg = "`%s' is not an evaluable expression."
                               /\ \E j \in 1..(i - 1) :
                                      /\ ~l[j].evaluable
                                      /\ \A h \in 1..(j - 1) : l[h].evaluable
                                      /\ startsStatus.names = <<l[j]>>

\* C4 witness: an accepted literal list that repeats a vid.
C4_Witness ==
    /\ LiteralListDone /\ startsStatus.ok
    /\ Len(starts.vids) = 3 /\ starts.vids[1] = starts.vids[3]
    /\ starts.vids[1] # starts.vids[2]

\* The kinds of expression a reference FROM clause may hold.
RefKinds == {"kInputProperty", "kVarProperty"}

\* C5: validateStarts on a reference clause succeeds iff the expression is
\* an input or variable property whose deduced type is the space's vid
\* type; then fromType is kPipe resp. kVariable, the first column name is
\* the property name, and for kVariable only the symbol is recorded and
\* added to userDefinedVarNameList_; in every other outcome of the call
\* userDefinedVarNameList_ is unchanged.
C5_ReferenceClause ==
    [][ (pc = "idle" /\ pc' = "startsDone") =>
          LET isRef == startsClause' # nullptr /\ startsClause'[1].isRef
              accepted == isRef /\ startsStatus'.ok
          IN  /\ isRef =>
                    LET e == startsClause'[1].ref[1]
                        d == startsClause'[1].deduced
                    IN  /\ startsStatus'.ok <=>
                               /\ e.kind \in RefKinds
                               /\ d.ok
                               /\ d.type = propTypeToValueType(vidType')
                        /\ startsStatus'.ok =>
                               /\ e.kind = "kInputProperty" => starts'.fromType = "kPipe"
                               /\ e.kind = "kVarProperty" => starts'.fromType = "kVariable"
                               /\ starts'.firstBeginningSrcVidColName = e.prop
                               /\ starts'.originalSrc = Ptr(e)
                               /\ e.kind = "kVarProperty" =>
                                      /\ starts'.userDefinedVarName = e.sym
                                      /\ userDefinedVarNameList' =
                                             userDefinedVarNameList \cup {e.sym}
                               /\ e.kind = "kInputProperty" =>
                                      starts'.userDefinedVarName = starts.userDefinedVarName
              /\ ~(accepted /\ starts'.fromType = "kVariable") =>
                    userDefinedVarNameList' = userDefinedVarNameList
      ]_vars

\* C5 witness: an accepted reference to a user variable, registered.
C5_Witness ==
    /\ pc = "startsDone" /\ startsClause # nullptr /\ startsClause[1].isRef
    /\ startsStatus.ok /\ starts.fromType = "kVariable"
    /\ starts.userDefinedVarName = "b"
    /\ userDefinedVarNameList = {"a", "b"}

\* C6: validateOver succeeds only if every processed name (the catalog's
\* names for OVER *, the clause's names otherwise) resolves; then edgeTypes
\* holds one type per processed name, in order, duplicates kept, isOverAll
\* tells the wildcard case and allEdges holds the catalog's names in it; the
\* first name that does not resolve ends the call with a SemanticError
\* naming that edge and the space.
C6_EdgeSetFailFast ==
    (pc = "overDone" /\ overClause # nullptr) =>
        LET c     == overClause[1]
            names == IF c.isOverAll THEN catalog.edges ELSE c.edges
            bad   == { i \in 1..Len(names) : names[i] \notin catalog.known }
        IN  /\ overStatus.ok =>
                  /\ bad = {}
                  /\ Len(over.edgeTypes) = Len(names)
                  /\ \A i \in 1..Len(names) : over.edgeTypes[i] = EdgeTypeOf(names[i])
                  /\ over.isOverAll = c.isOverAll
                  /\ c.isOverAll => over.allEdges = catalog.edges
            /\ bad # {} =>
                  /\ ~overStatus.ok
                  /\ \E i \in bad :
                        /\ \A j \in bad : i <= j
                        /\ overStatus.names = <<names[i], SpaceName>>
                  /\ overStatus.msg = (IF c.isOverAll
                                       THEN "`%s' not found in space [`%s']."
                                       ELSE "%s not found in space [%s].")

\* C6 witness: OVER * resolved two catalog names, in the catalog's order.
C6_Witness ==
    /\ pc = "overDone" /\ overClause # nullptr /\ overStatus.ok
    /\ over.isOverAll /\ over.allEdges = <<"like", "follow">>
    /\ Len(over.edgeTypes) = 2

\* C7: after every successful validateOver, wildcard or explicit, edgeTypes
\* is non-empty; OVER * on a space without edge types, or whose listing
\* fails, is rejected.
C7_EdgeTypesNonEmpty ==
    (pc = "overDone") =>
        /\ overStatus.ok => Len(over.edgeTypes) > 0
        /\ (overClause # nullptr /\ overClause[1].isOverAll
               /\ (~catalog.listOk \/ catalog.edges = <<>>)) => ~overStatus.ok

\* A call of one of the three validators has returned an error.
ValidatorFailed ==
    /\ pc = "idle"
    /\ \/ pc' = "startsDone" /\ ~startsStatus'.ok
       \/ pc' = "overDone" /\ ~overStatus'.ok
       \/ pc' = "stepDone" /\ ~stepStatus'.ok

RECURSIVE AcceptedPrefix(_, _)
AcceptedPrefix(l, t) ==
    IF l = <<>> THEN <<>>
    ELSE IF ~l[1].evaluable \/ l[1].value.type # propTypeToValueType(t) THEN <<>>
    ELSE <<l[1].value>> \o AcceptedPrefix(Tail(l), t)

\* The types of the names of l before its first name outside known.
RECURSIVE ResolvedPrefix(_, _)
ResolvedPrefix(l, known) ==
    IF l = <<>> THEN <<>>
    ELSE IF l[1] \notin known THEN <<>>
    ELSE <<EdgeTypeOf(l[1])>> \o ResolvedPrefix(Tail(l), known)

C9_ConstantInput ==
    (pc = "built") =>
        /\ startVidsVar = AnonVarName(anonVarIdx - 1)
        /\ \A j \in 0..(anonVarIdx - 2) : AnonVarName(j) # startVidsVar
        /\ startVidsVar \in DOMAIN ectx
        /\ LET v == ectx[startVidsVar]
           IN  /\ v.type = "DATASET"
               /\ v.v.colNames = <<kVid>>
               /\ Len(v.v.rows) = Len(starts.vids)
               /\ \A i \in 1..Len(starts.vids) : v.v.rows[i].values = <<starts.vids[i]>>
        /\ Len(starts.vids) = Len(startsClause[1].vidList)
        /\ \A i \in 1..Len(starts.vids) : starts.vids[i] = startsClause[1].vidList[i].value
        /\ starts.src = Ptr([kind |-> "kVarProperty", sym |-> startVidsVar, prop |-> kVid])

\* C9 witness: the input was built from a list that repeats a vid.
C9_Witness ==
    /\ pc = "built" /\ Len(starts.vids) = 3
    /\ starts.vids[1] = starts.vids[2] /\ starts.vids[2] # starts.vids[3]

\* C10: after every successful validateStarts on a freshly created Starts,
\* exactly one of "vids is non-empty" and "originalSrc is present" holds.
C10_ExactlyOneOrigin ==
    (pc = "startsDone" /\ startsStatus.ok) =>
        ((Len(starts.vids) > 0) <=> (starts.originalSrc = nullptr))

====
